---- MODULE Spec2Model ----
(***************************************************************************)
(* Admin screens of the seekers application (seekers/admin.py): the Human, *)
(* Seeker and CommunityPartner admins with their note inline, promotion    *)
(* and downgrade actions, the mailing-list side effects of a save, the     *)
(* Seeker list filters and the benefits dashboard.                         *)
(*                                                                         *)
(* Encoding: an id of 0 is Python's None for an object or an object_id;    *)
(* the empty string is a blank email or an untouched extra note form; a    *)
(* response of kind "error" is an exception that leaves the handler (the   *)
(* request's transaction is rolled back and the tables are unchanged).     *)
(***************************************************************************)
EXTENDS Integers, Sequences, FiniteSets, Bags, TLC

\* ------------------------------------------------------------------ bounds
\* Spec: the admin screens with their promotions and downgrades
MaxHumans == 3          \* Human rows ever created
MaxRoleNotes == 1       \* HumanNote rows ever created
\* SpecNotes: the note inline
MaxNoteHumans == 1
MaxNotes == 2
\* SpecMail: the mailing-list side effects
MaxMailHumans == 2
\* SpecDash: the benefits dashboard
MaxBenefits == 3        \* SeekerBenefit rows
\* SpecFilter: the Seeker list filters
MaxFilterSeekers == 3   \* Seeker rows of the filtered list

\* ------------------------------------------------------------------ inputs
Users == {"alice", "bob"}
Admins == {"human", "seeker", "communitypartner"}
NoteTexts == {"n1", "n2"}
Statuses == {"subscribed", "unsubscribed", "pending"}
\* settings.MAILCHIMP_TAGS, the choices of MailchimpForm.tags
MAILCHIMP_TAGS == {"newsletter", "events"}
\* what a POST may carry in its tags field: a choice, or a value that is none
TagInputs == MAILCHIMP_TAGS \cup {"bogus"}
RealEmails == {"a@example.org"}
Emails == RealEmails \cup {""}

VARIABLES
    human,              \* Human table: id -> row, ids are 1..Len(human)
    seeker,             \* Seeker table: the ids (= parent Human ids) with a row
    communitypartner,   \* CommunityPartner table: likewise
    humannote,          \* HumanNote table: id -> [human, note, added_by]
    noteSeq,            \* HumanNote's auto-increment: the last id given out
    mcStatus,           \* mailing list: email -> subscription status
    mcTags,             \* mailing list: email -> tags
    mcCalls,            \* the mutating mailing-list calls of the last request
    response,           \* the last request and the response it got
    today,              \* timezone.now().date() as [year, month]
    seekerbenefit,      \* SeekerBenefit table: a bag of rows
    dashboard,          \* the context of the last benefits dashboard
    flt                 \* the last list-filter application

adminVars == <<human, seeker, communitypartner, humannote, noteSeq>>
mailVars == <<mcStatus, mcTags, mcCalls>>
dashVars == <<today, seekerbenefit, dashboard>>
vars == <<human, seeker, communitypartner, humannote, noteSeq,
          mcStatus, mcTags, mcCalls, response, today, seekerbenefit,
          dashboard, flt>>

HumanIds == 1..Len(human)

\* ------------------------------------------------------- field layouts
\* A field entry is a row of field names: 'show_id' is the row <<"show_id">>,
\* ('first_names', 'last_names') the row of both.
HumanAdmin_fieldsets ==
    << [name |-> "None",
        fields |-> << <<"show_id">>, <<"first_names", "last_names">>,
                      <<"city", "state">> >>],
       [name |-> "Contact information",
        fields |-> << <<"email", "phone_number">>, <<"contact_preference">> >>],
       [name |-> "Record history",
        fields |-> << <<"created", "updated">> >>] >>

SeekerAdmin_fieldsets ==
    << [name |-> "None",
        fields |-> << <<"show_id">>, <<"first_names", "last_names">>,
                      <<"street_address">>, <<"city", "state", "zip_code">>,
                      <<"seeker_pairs">>, <<"transportation">>,
                      <<"listener_trained">>, <<"extra_care">>,
                      <<"extra_care_graduate">> >>],
       [name |-> "Contact information",
        fields |-> << <<"email", "phone_number">>,
                      <<"facebook_username", "facebook_alias">>,
                      <<"contact_preference">> >>],
       [name |-> "Service Opportunities",
        fields |-> << <<"ride_share", "space_holder", "activity_buddy", "outreach">>,
                      <<"connection_agent_organization">> >>],
       [name |-> "Important dates",
        fields |-> << <<"birthdate", "sober_anniversary">> >>],
       [name |-> "Record history",
        fields |-> << <<"created", "updated">>, <<"inactive_date">> >>] >>

CommunityPartnerAdmin_fieldsets ==
    << [name |-> "None",
        fields |-> << <<"show_id">>, <<"first_names", "last_names">>,
                      <<"city", "state">>, <<"organization">> >>],
       [name |-> "Contact information",
        fields |-> << <<"email", "phone_number">>, <<"contact_preference">> >>],
       [name |-> "Record history",
        fields |-> << <<"created", "updated">> >>] >>

\* list.remove(x): the list without its first x; ValueError when x is not in it.
list_remove(l, x) ==
    IF \E i \in 1..Len(l) : l[i] = x
    THEN LET k == CHOOSE i \in 1..Len(l) :
                      l[i] = x /\ \A j \in 1..(i - 1) : l[j] # x
         IN [ok |-> TRUE,
             value |-> [i \in 1..(Len(l) - 1) |-> IF i < k THEN l[i] ELSE l[i + 1]]]
    ELSE [ok |-> FALSE, value |-> l]

\* fieldsets[0][1]['fields'].remove(x) on a copy of the layout
remove_field(r, x) ==
    IF ~r.ok THEN r
    ELSE LET got == list_remove(r.value[1].fields, x)
         IN [ok |-> got.ok,
             value |-> [r.value EXCEPT ![1].fields = got.value]]

\* fieldsets[0:2]
FirstTwo(fs) == SubSeq(fs, 1, 2)

HumanAdmin_get_fieldsets(obj, popup) ==
    IF obj = 0 /\ popup
    THEN remove_field([ok |-> TRUE, value |-> FirstTwo(HumanAdmin_fieldsets)],
                      <<"show_id">>)
    ELSE [ok |-> TRUE, value |-> HumanAdmin_fieldsets]

SeekerAdmin_get_fieldsets(obj, popup) ==
    IF obj = 0 /\ popup
    THEN remove_field(
             remove_field([ok |-> TRUE, value |-> FirstTwo(SeekerAdmin_fieldsets)],
                          <<"show_id">>),
             <<"seeker_pair">>)
    ELSE [ok |-> TRUE, value |-> SeekerAdmin_fieldsets]

get_fieldsets(admin, obj, popup) ==
    CASE admin = "human" -> HumanAdmin_get_fieldsets(obj, popup)
      [] admin = "seeker" -> SeekerAdmin_get_fieldsets(obj, popup)
      [] OTHER -> [ok |-> TRUE, value |-> CommunityPartnerAdmin_fieldsets]

\* ------------------------------------------------------------- querysets
\* Variant: the list filters on the Seeker relation alone
HumanAdmin_get_queryset_seekers_only(autocomplete) ==
    IF autocomplete
    THEN HumanIds
    ELSE {h \in HumanIds : h \notin seeker}

\* qs.filter(seeker__isnull=True, communitypartner__isnull=True), or every
\* Human for the autocomplete endpoint
HumanAdmin_get_queryset(autocomplete) ==
    IF autocomplete
    THEN HumanIds
    ELSE {h \in HumanIds : h \notin seeker /\ h \notin communitypartner}

get_queryset(admin, autocomplete) ==
    CASE admin = "human" -> HumanAdmin_get_queryset(autocomplete)
      [] admin = "seeker" -> seeker
      [] OTHER -> communitypartner

\* ModelAdmin.get_object: the row of get_queryset with that pk, or None
get_object(admin, object_id) ==
    IF object_id \in get_queryset(admin, FALSE) THEN object_id ELSE 0

\* ------------------------------------------------------------ note inline
\* Variant: the inline allows changes
HumanNoteAdmin_may_change == TRUE

HumanNoteAdmin_has_change_permission == FALSE

NoteIds == DOMAIN humannote

\* A submitted inline form: id = 0 for the extra (new) form.
has_changed(notes, f) ==
    IF f.id = 0
    THEN f.note # ""
    ELSE HumanNoteAdmin_has_change_permission /\ f.note # notes[f.id].note

\* formset.save(commit=False): the new and the changed instances, unsaved
formset_save(notes, forms) ==
    SelectSeq(forms, LAMBDA f : ~f.DELETE /\ has_changed(notes, f))

\* formset.save_existing_objects(): deletes the forms marked DELETE and saves
\* the changed existing ones
save_existing_objects(notes, forms) ==
    LET dels == {forms[i].id : i \in {j \in 1..Len(forms) :
                                   forms[j].id # 0 /\ forms[j].DELETE}}
        chg == {i \in 1..Len(forms) :
                   /\ forms[i].id # 0
                   /\ ~forms[i].DELETE
                   /\ has_changed(notes, forms[i])}
        kept == DOMAIN notes \ dels
    IN [n \in kept |->
           IF \E i \in chg : forms[i].id = n
           THEN [notes[n] EXCEPT !.note =
                    forms[CHOOSE i \in chg : forms[i].id = n].note]
           ELSE notes[n]]

RECURSIVE save_instances(_, _, _, _, _, _)
\* the loop of save_formset over instances[k..]
save_instances(notes, seq, obj, user, instances, k) ==
    IF k > Len(instances) THEN [notes |-> notes, seq |-> seq]
    ELSE LET f == instances[k]
         IN IF f.id = 0
            THEN save_instances(
                     [n \in DOMAIN notes \cup {seq + 1} |->
                         IF n = seq + 1
                         THEN [human |-> obj, note |-> f.note, added_by |-> user]
                         ELSE notes[n]],
                     seq + 1, obj, user, instances, k + 1)
            ELSE save_instances(
                     [notes EXCEPT ![f.id].note = f.note],
                     seq, obj, user, instances, k + 1)

save_formset(notes, seq, obj, user, forms) ==
    LET instances == formset_save(notes, forms)
        existing == save_existing_objects(notes, forms)
    IN save_instances(existing, seq, obj, user, instances, 1)

\* get_inline_instances: no inlines on a popup add
get_inline_instances(obj, popup) ==
    IF obj = 0 /\ popup THEN {} ELSE {"HumanNoteAdmin"}

\* ------------------------------------------------------------ mailing list
\* settings.MAILCHIMP_DEFAULT_<MODEL_NAME>_TAGS, one setting per model; the
\* settings file is not part of the sources, the tag names stand for its values
MAILCHIMP_DEFAULT_TAGS(admin) ==
    CASE admin = "human" -> {"prospect"}
      [] admin = "seeker" -> {"seeker"}
      [] OTHER -> {"partner"}

\* mailchimp.client, on mc = [status, tags, calls]
subscription_status(mc, email) == mc.status[email]

subscribe_user(mc, email, tags) ==
    [status |-> [mc.status EXCEPT ![email] = "subscribed"],
     tags |-> [mc.tags EXCEPT ![email] = tags],
     calls |-> Append(mc.calls,
                      [op |-> "subscribe_user", email |-> email, tags |-> tags])]

update_user_tags(mc, email, tags) ==
    [status |-> mc.status,
     tags |-> [mc.tags EXCEPT ![email] = tags],
     calls |-> Append(mc.calls,
                      [op |-> "update_user_tags", email |-> email, tags |-> tags])]

\* MailchimpForm(request.POST).is_valid(): every submitted tag is a choice
MailchimpForm_is_valid(tags) == tags \subseteq MAILCHIMP_TAGS

\* Variant: a new record is subscribed whatever its status
save_model_unconditional(admin, change, email, mc) ==
    IF ~change /\ email # ""
    THEN subscribe_user(mc, email, MAILCHIMP_DEFAULT_TAGS(admin))
    ELSE mc

\* HumanAdminMixin.save_model, after the row is saved
save_model(admin, change, email, mc) ==
    IF ~change /\ email # ""
    THEN IF subscription_status(mc, email) # "subscribed"
         THEN subscribe_user(mc, email, MAILCHIMP_DEFAULT_TAGS(admin))
         ELSE mc
    ELSE mc

\* HumanAdminMixin.save_related, after the formsets are saved
save_related(change, email, tags, mc) ==
    IF change /\ email # ""
    THEN IF subscription_status(mc, email) = "subscribed"
         THEN IF MailchimpForm_is_valid(tags)
              THEN update_user_tags(mc, email, tags)
              ELSE mc
         ELSE mc
    ELSE mc

\* ---------------------------------------------------------------- requests
NoRequest ==
    [view |-> "", admin |-> "", method |-> "", object_id |-> 0, popup |-> FALSE,
     user |-> "", email |-> "", tags |-> {}, queryset |-> {},
     kind |-> "none", to |-> "", to_id |-> 0, fieldsets |-> <<>>]

\* No list filtered yet
NoFilter == [queryset |-> {}, applied |-> <<>>]

Error(req) == [req EXCEPT !.kind = "error"]
Redirect(req, to, id) == [req EXCEPT !.kind = "redirect", !.to = to, !.to_id = id]
Page(req, fs) == [req EXCEPT !.kind = "page", !.fieldsets = fs]

\* Human.upgrade_to_seeker(): a Seeker row for the same id
upgrade_to_seeker(sk, h) == sk \cup {h}

\* Human.mark_as_community_partner(): a CommunityPartner row for the same id
mark_as_community_partner(cp, h) == cp \cup {h}

\* Seeker.delete(keep_parents=True): the Seeker row goes, the Human row stays
delete_keep_parents(sk, s) == sk \ {s}

\* HumanAdminMixin.changeform_view and the ModelAdmin view under it: the add
\* form (object_id = 0) or the change form, shown (GET) or saved (POST)
changeform_view(admin, method, object_id, popup, user, email, forms, tags) ==
    LET obj == IF object_id # 0 THEN get_object(admin, object_id) ELSE 0
        fs == get_fieldsets(admin, obj, popup)
        change == object_id # 0
        req == [NoRequest EXCEPT !.view = "changeform", !.admin = admin,
                                 !.method = method, !.object_id = object_id,
                                 !.popup = popup, !.user = user,
                                 !.email = email, !.tags = tags]
        id == IF change THEN obj ELSE Len(human) + 1
        mc0 == [status |-> mcStatus, tags |-> mcTags, calls |-> <<>>]
        mc1 == save_model(admin, change, email, mc0)
        saved == IF get_inline_instances(obj, popup) = {}
                 THEN [notes |-> humannote, seq |-> noteSeq]
                 ELSE save_formset(humannote, noteSeq, id, user, forms)
        mc2 == save_related(change, email, tags, mc1)
    IN IF object_id # 0 /\ obj = 0
       THEN \* obj.email on None
            /\ response' = Error(req)
            /\ mcCalls' = <<>>
            /\ UNCHANGED <<adminVars, mcStatus, mcTags>>
       ELSE IF ~fs.ok
       THEN \* get_fieldsets raised while the form was built
            /\ response' = Error(req)
            /\ mcCalls' = <<>>
            /\ UNCHANGED <<adminVars, mcStatus, mcTags>>
       ELSE IF method = "GET"
       THEN /\ response' = Page(req, fs.value)
            /\ mcCalls' = <<>>
            /\ UNCHANGED <<adminVars, mcStatus, mcTags>>
       ELSE /\ human' = IF change
                        THEN [human EXCEPT ![id].email = email]
                        ELSE Append(human, [email |-> email])
            /\ seeker' = IF ~change /\ admin = "seeker"
                         THEN seeker \cup {id} ELSE seeker
            /\ communitypartner' = IF ~change /\ admin = "communitypartner"
                                   THEN communitypartner \cup {id}
                                   ELSE communitypartner
            /\ humannote' = saved.notes
            /\ noteSeq' = saved.seq
            /\ mcStatus' = mc2.status
            /\ mcTags' = mc2.tags
            /\ mcCalls' = mc2.calls
            /\ response' = Redirect(req, "changelist", 0)

\* HumanAdmin._get_obj_does_not_exist_redirect
HumanAdmin_get_obj_does_not_exist_redirect(req, object_id) ==
    IF object_id \notin seeker
    THEN \* except models.Seeker.DoesNotExist
         Redirect(req, "seeker_change", object_id)
    ELSE \* else: super()._get_obj_does_not_exist_redirect
         [req EXCEPT !.kind = "not_found", !.to = "index"]

\* ModelAdmin.delete_view of the Human admin, the confirmation page (GET)
delete_view(object_id) ==
    LET obj == get_object("human", object_id)
        req == [NoRequest EXCEPT !.view = "delete", !.admin = "human",
                                 !.method = "GET", !.object_id = object_id]
    IN /\ response' = IF obj = 0
                      THEN HumanAdmin_get_obj_does_not_exist_redirect(req, object_id)
                      ELSE Page(req, <<>>)
       /\ mcCalls' = <<>>
       /\ UNCHANGED <<adminVars, mcStatus, mcTags>>

\* Variant: the route redirects to the Human's own change page
enroll_seeker_to_human(object_id) ==
    LET h == get_object("human", object_id)
        req == [NoRequest EXCEPT !.view = "enroll_seeker", !.admin = "human",
                                 !.method = "GET", !.object_id = object_id]
    IN /\ mcCalls' = <<>>
       /\ IF h = 0
          THEN /\ response' = Error(req)
               /\ UNCHANGED <<adminVars, mcStatus, mcTags>>
          ELSE /\ seeker' = upgrade_to_seeker(seeker, h)
               /\ response' = Redirect(req, "human_change", object_id)
               /\ UNCHANGED <<human, communitypartner, humannote, noteSeq,
                              mcStatus, mcTags>>

\* HumanAdmin.enroll_seeker, the route <object_id>/enroll/
enroll_seeker(object_id) ==
    LET h == get_object("human", object_id)
        req == [NoRequest EXCEPT !.view = "enroll_seeker", !.admin = "human",
                                 !.method = "GET", !.object_id = object_id]
    IN /\ mcCalls' = <<>>
       /\ IF h = 0
          THEN \* None.upgrade_to_seeker()
               /\ response' = Error(req)
               /\ UNCHANGED <<adminVars, mcStatus, mcTags>>
          ELSE /\ seeker' = upgrade_to_seeker(seeker, h)
               /\ response' = Redirect(req, "seeker_change", object_id)
               /\ UNCHANGED <<human, communitypartner, humannote, noteSeq,
                              mcStatus, mcTags>>

\* obj.<method>() of the loop bodies, on the table the method changes
Call(method, table, obj) ==
    CASE method = "upgrade_to_seeker" -> upgrade_to_seeker(table, obj)
      [] method = "mark_as_community_partner" -> mark_as_community_partner(table, obj)
      [] OTHER -> delete_keep_parents(table, obj)

RECURSIVE ForEach(_, _, _)
\* for obj in queryset: obj.<method>()
ForEach(method, table, queryset) ==
    IF queryset = {} THEN table
    ELSE LET obj == CHOOSE x \in queryset : \A y \in queryset : x <= y
         IN ForEach(method, Call(method, table, obj), queryset \ {obj})

BulkRequest(view, admin, queryset) ==
    [NoRequest EXCEPT !.view = view, !.admin = admin, !.method = "POST",
                      !.queryset = queryset,
                      !.kind = "redirect", !.to = "changelist"]

\* HumanAdmin.enroll_as_seeker, the bulk action 'Enroll as Seeker'
enroll_as_seeker(queryset) ==
    /\ seeker' = ForEach("upgrade_to_seeker", seeker, queryset)
    /\ response' = BulkRequest("enroll_as_seeker", "human", queryset)
    /\ mcCalls' = <<>>
    /\ UNCHANGED <<human, communitypartner, humannote, noteSeq, mcStatus, mcTags>>

\* HumanAdmin.mark_as_community_partner, 'Mark as Community Partner'
mark_as_community_partner_action(queryset) ==
    /\ communitypartner' =
           ForEach("mark_as_community_partner", communitypartner, queryset)
    /\ response' = BulkRequest("mark_as_community_partner", "human", queryset)
    /\ mcCalls' = <<>>
    /\ UNCHANGED <<human, seeker, humannote, noteSeq, mcStatus, mcTags>>

\* Variant: seeker.delete() without keep_parents, which takes the parent's
\* notes along
downgrade_deleting_parents(queryset) ==
    /\ seeker' = ForEach("delete", seeker, queryset)
    /\ humannote' = [n \in {m \in NoteIds : humannote[m].human \notin queryset}
                        |-> humannote[n]]
    /\ response' = BulkRequest("downgrade_to_prospect", "seeker", queryset)
    /\ mcCalls' = <<>>
    /\ UNCHANGED <<human, communitypartner, noteSeq, mcStatus, mcTags>>

\* SeekerAdmin.downgrade_to_prospect, 'Downgrade to Prospect'
downgrade_to_prospect(queryset) ==
    /\ seeker' = ForEach("delete", seeker, queryset)
    /\ response' = BulkRequest("downgrade_to_prospect", "seeker", queryset)
    /\ mcCalls' = <<>>
    /\ UNCHANGED <<human, communitypartner, humannote, noteSeq, mcStatus, mcTags>>

\* The rows an admin's action can be run on: a non-empty selection of its list
Selections(admin) == SUBSET get_queryset(admin, FALSE) \ {{}}

\* The inline forms a POST for obj may carry: at most one of obj's notes
\* touched (text changed or marked DELETE), and the extra form
NoteForms(obj, newTexts) ==
    LET own == {n \in NoteIds : humannote[n].human = obj}
        touched == {<<>>} \cup
                   {<<[id |-> n, note |-> t, DELETE |-> d]>> :
                        n \in own, t \in NoteTexts, d \in BOOLEAN}
        extra == {<<>>} \cup
                 {<<[id |-> 0, note |-> t, DELETE |-> FALSE]>> : t \in newTexts}
    IN {a \o b : a \in touched, b \in extra}

TypeOK ==
    /\ human \in Seq([email : Emails])
    /\ seeker \subseteq HumanIds
    /\ communitypartner \subseteq HumanIds
    /\ NoteIds \subseteq 1..noteSeq

Init ==
    /\ human = <<>>
    /\ seeker = {}
    /\ communitypartner = {}
    /\ humannote = <<>>
    /\ noteSeq = 0
    /\ mcStatus = [e \in RealEmails |-> "unsubscribed"]
    /\ mcTags = [e \in RealEmails |-> {}]
    /\ mcCalls = <<>>
    /\ response = NoRequest
    /\ today = [year |-> 2026, month |-> 11]
    /\ seekerbenefit = EmptyBag
    /\ dashboard = <<>>
    /\ flt = NoFilter

\* The admin screens: records are saved without an email and by one user,
\* and a save may add a note
Next ==
    \/ \E admin \in Admins, method \in {"GET", "POST"}, object_id \in 0..MaxHumans :
         \E popup \in IF object_id = 0 THEN BOOLEAN ELSE {FALSE},
            forms \in IF method = "POST"
                      THEN {<<>>, <<[id |-> 0, note |-> "n1", DELETE |-> FALSE]>>}
                      ELSE {<<>>} :
           /\ changeform_view(admin, method, object_id, popup, "alice", "", forms, {})
           /\ Len(human') <= MaxHumans
           /\ noteSeq' <= MaxRoleNotes
           /\ UNCHANGED <<dashVars, flt>>
    \/ \E object_id \in 1..MaxHumans :
         delete_view(object_id) /\ UNCHANGED <<dashVars, flt>>
    \/ \E object_id \in 1..MaxHumans :
         enroll_seeker(object_id) /\ UNCHANGED <<dashVars, flt>>
    \/ \E queryset \in Selections("human") :
         enroll_as_seeker(queryset) /\ UNCHANGED <<dashVars, flt>>
    \/ \E queryset \in Selections("human") :
         mark_as_community_partner_action(queryset) /\ UNCHANGED <<dashVars, flt>>
    \/ \E queryset \in Selections("seeker") :
         downgrade_to_prospect(queryset) /\ UNCHANGED <<dashVars, flt>>

Spec == Init /\ [][Next]_vars

\* The note inline: Humans and Seekers are added and saved by several users,
\* with notes added, and existing notes resubmitted with another text or
\* marked for deletion
NextNotes ==
    \E admin \in {"human", "seeker"}, method \in {"GET", "POST"},
       object_id \in 0..MaxNoteHumans, user \in Users :
      \E popup \in IF object_id = 0 THEN BOOLEAN ELSE {FALSE},
         forms \in IF method = "POST"
                   THEN NoteForms(object_id, {"n1"}) ELSE {<<>>} :
        /\ changeform_view(admin, method, object_id, popup, user, "", forms, {})
        /\ Len(human') <= MaxNoteHumans
        /\ noteSeq' <= MaxNotes
        /\ UNCHANGED <<dashVars, flt>>

SpecNotes == Init /\ [][NextNotes]_vars

\* What a POST carries in its tags field
TagSubmissions == SUBSET {"newsletter", "bogus"}

InitMail ==
    /\ human = <<>>
    /\ seeker = {}
    /\ communitypartner = {}
    /\ humannote = <<>>
    /\ noteSeq = 0
    /\ mcStatus \in [RealEmails -> Statuses]
    /\ mcTags = [e \in RealEmails |-> {}]
    /\ mcCalls = <<>>
    /\ response = NoRequest
    /\ today = [year |-> 2026, month |-> 11]
    /\ seekerbenefit = EmptyBag
    /\ dashboard = <<>>
    /\ flt = NoFilter

\* The mailing-list side effects: records are added and saved with and without
\* an email, on a list where the email has any status
NextMail ==
    \E admin \in Admins, method \in {"GET", "POST"}, object_id \in 0..MaxMailHumans :
      \E email \in IF method = "POST" THEN Emails ELSE {""},
         tags \in IF method = "POST" /\ object_id # 0 THEN TagSubmissions ELSE {{}} :
        /\ changeform_view(admin, method, object_id, FALSE, "alice", email, <<>>, tags)
        /\ Len(human') <= MaxMailHumans
        /\ UNCHANGED <<dashVars, flt>>

SpecMail == InitMail /\ [][NextMail]_vars

\* ------------------------------------------------------ benefits dashboard
BenefitTypes == {1, 2}                  \* SeekerBenefitType rows
BenefitYears == {2025, 2026}
BenefitMonths == {10, 11}
BenefitCosts == {5, 10, 20}
BenefitRows(seekers) ==
    [benefit_type : BenefitTypes, seeker : seekers,
     year : BenefitYears, month : BenefitMonths, cost : BenefitCosts]

\* An SQL NULL / Python None is <<>>, a value v is <<v>>, and a Decimal
\* quotient n/d is the reduced fraction <<n, d>>.
RECURSIVE GCD(_, _)
GCD(a, b) == IF b = 0 THEN a ELSE GCD(b, a % b)

Frac(n, d) == LET g == GCD(n, d) IN <<n \div g, d \div g>>

RECURSIVE BagCount(_, _)
\* COUNT(*) over the rows of bag b in set rows
BagCount(b, rows) ==
    IF rows = {} THEN 0
    ELSE LET r == CHOOSE x \in rows : TRUE
         IN CopiesIn(r, b) + BagCount(b, rows \ {r})

RECURSIVE BagCost(_, _)
\* the costs of the rows of bag b in set rows, added up
BagCost(b, rows) ==
    IF rows = {} THEN 0
    ELSE LET r == CHOOSE x \in rows : TRUE
         IN CopiesIn(r, b) * r.cost + BagCost(b, rows \ {r})

\* Count(...), Sum(...), Avg(...) over the joined rows
Count(b, rows) == BagCount(b, rows)
Sum(b, rows) == IF BagCount(b, rows) = 0 THEN <<>> ELSE <<BagCost(b, rows)>>
Avg(b, rows) ==
    IF BagCount(b, rows) = 0 THEN <<>>
    ELSE Frac(BagCost(b, rows), BagCount(b, rows))

\* Q(seekerbenefit__date__month=today.month)
this_month_filter(t, r) == r.month = t.month
\* Q(seekerbenefit__date__year=today.year)
this_year_filter(t, r) == r.year = t.year
\* filter=None
no_filter(t, r) == TRUE

\* filter_q applied to a joined row
matches(filter_q, t, r) ==
    CASE filter_q = "this_month_filter" -> this_month_filter(t, r)
      [] filter_q = "this_year_filter" -> this_year_filter(t, r)
      [] OTHER -> no_filter(t, r)

\* _annotated(qs, filter_q): the rows joined to each object of qs by the
\* relation `key`, aggregated under the filter
annotated(b, t, qs, key, filter_q) ==
    [o \in qs |->
        LET rows == {r \in BagToSet(b) : r[key] = o /\ matches(filter_q, t, r)}
        IN [used |-> Count(b, rows),
            total |-> Sum(b, rows),
            average_cost |-> Avg(b, rows)]]

\* SeekerBenefitProxyAdmin.changelist_view: the context of the dashboard
changelist_context(b, t, seekers) ==
    LET this_month == annotated(b, t, BenefitTypes, "benefit_type", "this_month_filter")
        this_year == annotated(b, t, BenefitTypes, "benefit_type", "this_year_filter")
        all_time == annotated(b, t, BenefitTypes, "benefit_type", "None")
        month_rows == {r \in BagToSet(b) : r.month = t.month}
        seekers_this_month == Count(b, month_rows)
        summed == Sum(b, month_rows)
        total_spent_this_month == IF summed = <<>> THEN 0 ELSE summed[1]
        avg_per_seeker == IF seekers_this_month # 0
                          THEN Frac(total_spent_this_month, seekers_this_month)
                          ELSE <<0, 1>>
        per_seeker == annotated(b, t, seekers, "seeker", "this_month_filter")
    IN [today |-> t,
        by_benefit_type |->
            [T \in BenefitTypes |->
                [this_month |-> this_month[T], this_year |-> this_year[T],
                 all_time |-> all_time[T]]],
        seekers_this_month |-> seekers_this_month,
        total_spent_this_month |-> total_spent_this_month,
        avg_per_seeker |-> avg_per_seeker,
        \* the rows of cost_per_seeker, which the page lists by (-used, -total)
        cost_per_seeker |->
            {[seeker |-> s, used |-> per_seeker[s].used,
              total |-> per_seeker[s].total] :
                 s \in {x \in seekers : per_seeker[x].used > 0}}]

changelist_view ==
    /\ dashboard' = <<changelist_context(seekerbenefit, today, seeker)>>
    /\ UNCHANGED <<today, seekerbenefit>>

\* A SeekerBenefit row saved through the SeekerBenefitAdmin inline; the
\* response to that request replaces the dashboard
AddBenefit(row) ==
    /\ seekerbenefit' = seekerbenefit (+) SetToBag({row})
    /\ dashboard' = <<>>
    /\ UNCHANGED today

InitDash ==
    /\ human = <<[email |-> ""], [email |-> ""]>>
    /\ seeker = {1, 2}
    /\ communitypartner = {}
    /\ humannote = <<>>
    /\ noteSeq = 0
    /\ mcStatus = [e \in RealEmails |-> "unsubscribed"]
    /\ mcTags = [e \in RealEmails |-> {}]
    /\ mcCalls = <<>>
    /\ response = NoRequest
    /\ today \in [year : {2026}, month : BenefitMonths]
    /\ seekerbenefit = EmptyBag
    /\ dashboard = <<>>
    /\ flt = NoFilter

NextDash ==
    \/ /\ changelist_view
       /\ UNCHANGED <<adminVars, mailVars, response, flt>>
    \/ \E row \in BenefitRows(seeker) :
         /\ BagCardinality(seekerbenefit) < MaxBenefits
         /\ AddBenefit(row)
         /\ UNCHANGED <<adminVars, mailVars, response, flt>>

SpecDash == InitDash /\ [][NextDash]_vars

\* ------------------------------------------------------------ list filters
\* A row of the filtered Seeker list is [id, inactive_date,
\* connection_agent_organization], with inactive_date 0 for NULL.

\* self.value(): the query string's is_active, "" when it has none
FilterValues == {"", "1", "0", "true", "false"}

IsActiveFilter_lookups == {"1", "0"}
IsConnectionAgentFilter_lookups == {"1", "0"}

\* Variant: the filter compares with the values its lookups advertise
IsActiveFilter_queryset_advertised(value, queryset) ==
    IF value = "1"
    THEN {r \in queryset : r.inactive_date = 0}
    ELSE IF value = "0"
    THEN {r \in queryset : r.inactive_date # 0}
    ELSE queryset

IsActiveFilter_queryset(value, queryset) ==
    IF value = "true"
    THEN {r \in queryset : r.inactive_date = 0}
    ELSE IF value = "false"
    THEN {r \in queryset : r.inactive_date # 0}
    ELSE queryset

IsConnectionAgentFilter_queryset(value, queryset) ==
    IF value = "true"
    THEN {r \in queryset : ~(r.connection_agent_organization = "")}
    ELSE IF value = "false"
    THEN {r \in queryset : r.connection_agent_organization = ""}
    ELSE queryset

\* The lists of Seekers: sets of rows with distinct ids
SeekerLists ==
    UNION {{{[id |-> i, inactive_date |-> f[i].inactive_date,
              connection_agent_organization |->
                  f[i].connection_agent_organization] : i \in S} :
              f \in [S -> [inactive_date : {0, 20190625},
                           connection_agent_organization : {"", "acme"}]]} :
           S \in SUBSET (1..MaxFilterSeekers)}

\* One of the two filters applied to the list of Seekers
ApplyFilter(filter, value) ==
    flt' = [flt EXCEPT !.applied =
               <<[filter |-> filter, value |-> value,
                  output |-> IF filter = "IsActiveFilter"
                             THEN IsActiveFilter_queryset(value, flt.queryset)
                             ELSE IsConnectionAgentFilter_queryset(value,
                                                                   flt.queryset)]>>]

InitFilter ==
    /\ human = <<>>
    /\ seeker = {}
    /\ communitypartner = {}
    /\ humannote = <<>>
    /\ noteSeq = 0
    /\ mcStatus = [e \in RealEmails |-> "unsubscribed"]
    /\ mcTags = [e \in RealEmails |-> {}]
    /\ mcCalls = <<>>
    /\ response = NoRequest
    /\ today = [year |-> 2026, month |-> 11]
    /\ seekerbenefit = EmptyBag
    /\ dashboard = <<>>
    /\ flt \in [queryset : SeekerLists, applied : {<<>>}]

NextFilter ==
    \E filter \in {"IsActiveFilter", "IsConnectionAgentFilter"},
       value \in FilterValues :
      /\ ApplyFilter(filter, value)
      /\ UNCHANGED <<adminVars, mailVars, response, dashVars>>

SpecFilter == InitFilter /\ [][NextFilter]_vars

\* ================================================================== claims
Prospects == {h \in HumanIds : h \notin seeker /\ h \notin communitypartner}

\* C1: a saved HumanNote is never changed by a later save of the note inline,
\* whoever makes it, and a note's added_by is the user of the request that
\* first saved it.
NotesAppendOnly ==
    [][/\ \A n \in NoteIds \cap DOMAIN humannote' : humannote'[n] = humannote[n]
       /\ \A n \in DOMAIN humannote' \ NoteIds :
              humannote'[n].added_by = response'.user]_vars

\* A user has saved the record of a note that another user added.
NotesAppendOnlyWitness ==
    /\ response.view = "changeform"
    /\ response.method = "POST"
    /\ response.kind = "redirect"
    /\ \E n \in NoteIds :
          /\ humannote[n].human = response.object_id
          /\ humannote[n].added_by # response.user

\* C2: the Human admin list holds exactly the Humans with neither a Seeker nor
\* a CommunityPartner row.
HumanListIsProspects ==
    /\ HumanAdmin_get_queryset(FALSE) \subseteq HumanIds
    /\ \A h \in HumanIds :
          h \in HumanAdmin_get_queryset(FALSE)
              <=> ~(h \in seeker \/ h \in communitypartner)

\* A Prospect, a Seeker and a Community Partner exist side by side.
HumanListWitness ==
    \E a, b, c \in HumanIds :
        /\ a \in HumanAdmin_get_queryset(FALSE)
        /\ b \in seeker
        /\ c \in communitypartner

\* C3: promoting a Prospect, by the enroll route or by 'Enroll as Seeker',
\* leaves a Seeker row for the same id and the Human table as it was; the
\* route answers with a redirect to the Seeker change page of that id.
PromotionCreatesSeeker ==
    [][LET r == response'
       IN /\ (r.view = "enroll_seeker" /\ r.object_id \in Prospects) =>
                 /\ r.object_id \in seeker'
                 /\ human' = human
                 /\ r.kind = "redirect"
                 /\ r.to = "seeker_change"
                 /\ r.to_id = r.object_id
          /\ r.view = "enroll_as_seeker" =>
                 /\ r.queryset \subseteq seeker'
                 /\ human' = human]_vars

\* The enroll route has promoted a Human.
PromotionWitness ==
    /\ response.view = "enroll_seeker"
    /\ response.kind = "redirect"
    /\ response.object_id \in seeker

\* C4: 'Downgrade to Prospect' removes the Seeker rows of the selection and
\* nothing else: the Human and HumanNote tables are as they were, and each
\* downgraded record without a CommunityPartner row is on the Human list again.
DowngradeKeepsHuman ==
    [][response'.view = "downgrade_to_prospect" =>
          /\ seeker' = seeker \ response'.queryset
          /\ human' = human
          /\ humannote' = humannote
          /\ communitypartner' = communitypartner
          /\ \A s \in response'.queryset :
                s \notin communitypartner' =>
                    s \in HumanAdmin_get_queryset(FALSE)']_vars

\* A Seeker with a note has been downgraded.
DowngradeWitness ==
    /\ response.view = "downgrade_to_prospect"
    /\ \E n \in NoteIds :
          /\ humannote[n].human \in response.queryset
          /\ humannote[n].human \in HumanAdmin_get_queryset(FALSE)

\* C5: a save makes one mutating mailing-list call or none: a creation with an
\* email whose status is not 'subscribed' calls subscribe_user with the
\* model's default tags; an edit with an email whose status is 'subscribed'
\* and a valid tag form calls update_user_tags with the submitted tags; every
\* other request calls neither.
MailingCallsFollowSave ==
    [][LET r == response'
       IN mcCalls' =
              IF /\ r.view = "changeform"
                 /\ r.method = "POST"
                 /\ r.kind = "redirect"
                 /\ r.email # ""
              THEN IF r.object_id = 0
                   THEN IF mcStatus[r.email] # "subscribed"
                        THEN <<[op |-> "subscribe_user", email |-> r.email,
                                tags |-> MAILCHIMP_DEFAULT_TAGS(r.admin)]>>
                        ELSE <<>>
                   ELSE IF mcStatus[r.email] = "subscribed"
                           /\ r.tags \subseteq MAILCHIMP_TAGS
                        THEN <<[op |-> "update_user_tags", email |-> r.email,
                                tags |-> r.tags]>>
                        ELSE <<>>
              ELSE <<>>]_vars

\* An edit has overwritten the tags of a subscribed email.
MailingCallsWitness ==
    /\ response.view = "changeform"
    /\ response.object_id # 0
    /\ response.tags # {}
    /\ mcCalls # <<>>
    /\ mcCalls[1].op = "update_user_tags"

\* The rows of benefit type T on the dashboard's date t, in its year, and all
RowsOfMonth(T, t) ==
    {r \in BagToSet(seekerbenefit) :
        r.benefit_type = T /\ r.year = t.year /\ r.month = t.month}
RowsOfYear(T, t) ==
    {r \in BagToSet(seekerbenefit) : r.benefit_type = T /\ r.year = t.year}
RowsOfType(T) == {r \in BagToSet(seekerbenefit) : r.benefit_type = T}

Figures(rows) ==
    [used |-> Count(seekerbenefit, rows),
     total |-> Sum(seekerbenefit, rows),
     average_cost |-> Avg(seekerbenefit, rows)]

\* C6: for every benefit type the dashboard's this-month figures are those of
\* the type's benefits dated in the current month of the current year, the
\* this-year figures those of the current year, the all-time figures those of
\* all its benefits.
DashboardFiguresByPeriod ==
    dashboard # <<>> =>
        \A T \in BenefitTypes :
            LET d == dashboard[1].by_benefit_type[T]
            IN /\ d.this_month = Figures(RowsOfMonth(T, today))
               /\ d.this_year = Figures(RowsOfYear(T, today))
               /\ d.all_time = Figures(RowsOfType(T))

\* C7: avg_per_seeker is the total spent this month divided by the number of
\* seekers with a benefit this month, and zero when there is none.
AvgPerSeekerIsPerSeeker ==
    dashboard # <<>> =>
        LET rows == UNION {RowsOfMonth(T, today) : T \in BenefitTypes}
            seekers == {r.seeker : r \in rows}
        IN dashboard[1].avg_per_seeker =
              IF seekers = {}
              THEN <<0, 1>>
              ELSE Frac(BagCost(seekerbenefit, rows), Cardinality(seekers))

\* C8: the Human detail page of an id that is not on the Human list redirects
\* to the Seeker change page of that id when a Seeker has it, and gets the
\* default not-found handling otherwise.
HumanDetailRedirectsToSeeker ==
    (/\ response.view = "changeform"
     /\ response.admin = "human"
     /\ response.method = "GET"
     /\ response.object_id # 0
     /\ response.object_id \notin HumanAdmin_get_queryset(FALSE)) =>
        IF response.object_id \in seeker
        THEN /\ response.kind = "redirect"
             /\ response.to = "seeker_change"
             /\ response.to_id = response.object_id
        ELSE response.kind = "not_found"

\* C9: with either advertised value, '1' or '0', each filter returns the list
\* it was given; with 'true', IsActiveFilter keeps the Seekers without an
\* inactive_date.
AdvertisedValuesDoNotFilter ==
    flt.applied # <<>> =>
        LET a == flt.applied[1]
        IN /\ a.value \in IsActiveFilter_lookups \cup IsConnectionAgentFilter_lookups
                  => a.output = flt.queryset
           /\ (a.filter = "IsActiveFilter" /\ a.value = "true")
                  => a.output = {r \in flt.queryset : r.inactive_date = 0}

\* IsActiveFilter was given '1' and a list with an inactive Seeker.
AdvertisedValuesWitness ==
    /\ flt.applied # <<>>
    /\ flt.applied[1].filter = "IsActiveFilter"
    /\ flt.applied[1].value = "1"
    /\ \E r \in flt.queryset : r.inactive_date # 0
    /\ \E r \in flt.queryset : r.inactive_date = 0

\* The first two groups of a layout without the rows in drop
Abbreviated(fs, drop) ==
    [i \in 1..2 |->
        [name |-> fs[i].name,
         fields |-> SelectSeq(fs[i].fields, LAMBDA row : row \notin drop)]]

\* C10: the popup add form of the Human and of the Seeker admin is built
\* without an error, from the first two groups of the layout without show_id
\* (and, for the Seeker admin, without the pairing display field).
PopupAddFormAbbreviated ==
    (/\ response.view = "changeform"
     /\ response.method = "GET"
     /\ response.object_id = 0
     /\ response.popup
     /\ response.admin \in {"human", "seeker"}) =>
        /\ response.kind = "page"
        /\ response.fieldsets =
               IF response.admin = "human"
               THEN Abbreviated(HumanAdmin_fieldsets, {<<"show_id">>})
               ELSE Abbreviated(SeekerAdmin_fieldsets,
                                {<<"show_id">>, <<"seeker_pairs">>})

====
